---- MODULE Spec2Model ----
(***************************************************************************)
(* TubePropertiesComp (openaerostruct_v2/structures/components/            *)
(* tube_properties_comp.py): the component that turns the radius and wall  *)
(* thickness of every beam element of every lifting surface into the       *)
(* cross-section properties A, Iy, Iz, J and their partial derivatives.    *)
(*                                                                         *)
(* Numbers.  The code works on numpy float arrays.  The model computes in  *)
(* exact decimal arithmetic, and an output, which the code obtains by      *)
(* multiplying by np.pi, is a record [pi |-> q] that stands for the real   *)
(* number q * pi.  Floating-point rounding is therefore not modelled;      *)
(* every statement below is about the exact values of the expressions the  *)
(* code evaluates.  Inputs are written with one digit after the point.     *)
(*                                                                         *)
(* Arrays are sequences (index 1 is numpy's index 0); dictionaries and the *)
(* framework's named vectors are functions from key strings.               *)
(***************************************************************************)
EXTENDS Integers, Sequences, FiniteSets, TLC

VARIABLES
    lifting_surfaces,   \* self.metadata['lifting_surfaces']: <<name, data>> pairs
    pc,                 \* "new" | "ready" (setup returned) | "failed" (setup raised)
    declared_inputs,    \* add_input calls so far: key -> shape
    declared_outputs,   \* add_output calls so far: key -> shape
    declared_partials,  \* declare_partials calls so far: <<of, wrt>> -> [rows, cols]
    inputs,             \* the inputs vector handed to compute / compute_partials
    outputs,            \* the outputs vector compute writes
    partials,           \* the partials compute_partials writes: <<of, wrt>> -> array
    err,                \* exception raised by the last call, or "none"
    computed_for,       \* history: the inputs of the last compute, if it returned
                        \* normally and was the last call to write outputs
    partials_for,       \* history: the same for compute_partials and partials
    changes             \* number of input changes made by the caller so far

vars == <<lifting_surfaces, pc, declared_inputs, declared_outputs,
          declared_partials, inputs, outputs, partials, err, computed_for,
          partials_for, changes>>

----------------------------------------------------------------------------
(* Bounds of the model.                                                    *)

\* largest num_points_z_half a surface is configured with
MaxHalf == 2
\* largest whole radius / thickness value the caller supplies
MaxRadius == 2
\* number of input changes the caller makes after setup
MaxChanges == 2

----------------------------------------------------------------------------------------------------------------------------------------
(* Exact decimal arithmetic: [m |-> mantissa, e |-> digits after the       *)
(* point] is the number m / 10^e.  Subtraction, multiplication, integer    *)
(* powers and division by 2 or 4 are exact on such numbers.                *)

Dec(m, e) == [m |-> m, e |-> e]
Int2D(k) == Dec(k, 0)
Max(a, b) == IF a < b THEN b ELSE a
Abs(x) == IF x < 0 THEN -x ELSE x

\* the mantissa of a written with e digits after the point (e >= a.e)
Mant(a, e) == a.m * 10 ^ (e - a.e)

DSub(a, b) == LET e == Max(a.e, b.e) IN Dec(Mant(a, e) - Mant(b, e), e)
DAdd(a, b) == LET e == Max(a.e, b.e) IN Dec(Mant(a, e) + Mant(b, e), e)
DMul(a, b) == Dec(a.m * b.m, a.e + b.e)
DPow(a, k) == Dec(a.m ^ k, a.e * k)
\* a / k for k = 2. or 4.
DDiv(a, k) == Dec(a.m * (100 \div k), a.e + 2)
DAbs(a) == Dec(Abs(a.m), a.e)
DEq(a, b) == LET e == Max(a.e, b.e) IN Mant(a, e) = Mant(b, e)
DLess(a, b) == LET e == Max(a.e, b.e) IN Mant(a, e) < Mant(b, e)
DLeq(a, b) == LET e == Max(a.e, b.e) IN Mant(a, e) <= Mant(b, e)

\* the real number q * pi
PiTimes(q) == [pi |-> q]
PiDiv(v, k) == [pi |-> DDiv(v.pi, k)]

----------------
(* numpy arrays: elementwise operations; a binary operation broadcasts a   *)
(* length-1 operand, and operands of two different lengths, neither of     *)
(* them 1, make numpy raise ValueError.                                    *)

Broadcastable(a, b) == Len(a) = Len(b) \/ Len(a) = 1 \/ Len(b) = 1
BLen(a, b) == IF Len(a) = 1 THEN Len(b) ELSE Len(a)
At(a, i) == IF Len(a) = 1 THEN a[1] ELSE a[i]
\* a - b
ArrSub(a, b) == [i \in 1..BLen(a, b) |-> DSub(At(a, i), At(b, i))]
\* a ** k
ArrPow(a, k) == [i \in 1..Len(a) |-> DPow(a[i], k)]
\* a * c for an integer-valued scalar c
ArrScale(a, c) == [i \in 1..Len(a) |-> DMul(a[i], Int2D(c))]
\* np.pi * a
PiArr(a) == [i \in 1..Len(a) |-> PiTimes(a[i])]
\* v / k for an array v of multiples of pi
PiArrDiv(v, k) == [i \in 1..Len(v) |-> PiDiv(v[i], k)]
\* c * v for an integer c and an array v of multiples of pi
PiArrScale(c, v) == [i \in 1..Len(v) |-> PiTimes(DMul(Int2D(c), v[i].pi))]
Ones(n) == [i \in 1..n |-> Dec(10, 1)]

----------------------------------------------------------------------------
(* Names of the slots of one surface.                                      *)

\* variant: the surface name left out of the key
InKey_NoSurface(lifting_surface_name, in_name_) == "_tube_" \o in_name_

\* '{}_tube_{}'.format(lifting_surface_name, in_name_)
InKey(lifting_surface_name, in_name_) ==
    lifting_surface_name \o "_tube_" \o in_name_

\* '{}_element_{}'.format(lifting_surface_name, out_name_)
OutKey(lifting_surface_name, out_name_) ==
    lifting_surface_name \o "_element_" \o out_name_

InNames == <<"radius", "thickness">>
OutNames == <<"A", "Iy", "Iz", "J">>

Range(s) == {s[i] : i \in DOMAIN s}

SurfaceInKeys(name) == {InKey(name, x) : x \in Range(InNames)}
SurfaceOutKeys(name) == {OutKey(name, x) : x \in Range(OutNames)}
SurfacePairs(name) == SurfaceOutKeys(name) \X SurfaceInKeys(name)

\* variant: an entry already present is kept
Put_KeepExisting(d, k, v) ==
    IF k \in DOMAIN d THEN d ELSE [x \in DOMAIN d \cup {k} |-> IF x = k THEN v ELSE d[x]]

\* dictionary / vector assignment d[k] = v
Put(d, k, v) == [x \in DOMAIN d \cup {k} |-> IF x = k THEN v ELSE d[x]]
Empty == [x \in {} |-> 0]
\* history value: no call has returned normally yet
NoCall == [valid |-> FALSE, ins |-> Empty]
CallOn(ins) == [valid |-> TRUE, ins |-> ins]

----------------------------------------------------------------------------
(* The registration input.  A surface is <<name, data>>; data is the       *)
(* surface's metadata dictionary.  The component reads one key of it.      *)

NodeCountKey == "num_points_z_half"
\* another name for the node count, which setup does not read
SpecNodeCountKey == "num_points_half"

SurfaceNames == {"wing", "wing_tube"}
MetaKeys == {NodeCountKey, SpecNodeCountKey}

\* metadata dictionaries: a positive node count stored under one of the keys
SurfaceData == {[k \in {key} |-> h] : key \in MetaKeys, h \in 1..MaxHalf}

\* lists of one surface, and of two surfaces with distinct names
SurfaceLists ==
    {<<(<<n, d>>)>> : n \in SurfaceNames, d \in SurfaceData}
    \cup {<<(<<"wing", d1>>), (<<"wing_tube", d2>>)>> :
            d1 \in SurfaceData, d2 \in SurfaceData}

\* values the caller writes into an input array
Values == {Dec(1, 1)} \cup {Dec(10 * k, 1) : k \in 1..MaxRadius}

----------------------------------------------------------------------------
(* setup                                                                   *)

PutAll(d, keys, v) == [x \in DOMAIN d \cup keys |-> IF x \in keys THEN v ELSE d[x]]

\* np.arange(n)
Arange(n) == [i \in 1..n |-> i - 1]

\* variant: off by one
NumPointsZ_NoMinusOne(lifting_surface_data) == 2 * lifting_surface_data[NodeCountKey]

\* num_points_z = 2 * lifting_surface_data['num_points_z_half'] - 1
NumPointsZ(lifting_surface_data) == 2 * lifting_surface_data[NodeCountKey] - 1

\* the body of the loop of setup for surfaces k, k+1, ..., given the
\* declarations made so far; a missing metadata key raises KeyError there
RECURSIVE SetupFrom(_, _, _, _)
SetupFrom(k, din, dout, dpart) ==
    IF k > Len(lifting_surfaces)
    THEN [din |-> din, dout |-> dout, dpart |-> dpart, err |-> "none"]
    ELSE LET lifting_surface_name == lifting_surfaces[k][1]
             lifting_surface_data == lifting_surfaces[k][2]
         IN  IF NodeCountKey \notin DOMAIN lifting_surface_data
             THEN [din |-> din, dout |-> dout, dpart |-> dpart, err |-> "KeyError"]
             ELSE LET num_points_z == NumPointsZ(lifting_surface_data)
                      arange == Arange(num_points_z - 1)
                  IN  SetupFrom(k + 1,
                        PutAll(din, SurfaceInKeys(lifting_surface_name), num_points_z - 1),
                        PutAll(dout, SurfaceOutKeys(lifting_surface_name), num_points_z - 1),
                        PutAll(dpart, SurfacePairs(lifting_surface_name),
                               [rows |-> arange, cols |-> arange]))

----------------------------------------------------------------------------
(* compute                                                                 *)

\* variant: the radii swapped
TubeA_Swapped(r2, r1) == PiArr(ArrSub(ArrPow(r1, 2), ArrPow(r2, 2)))

\* np.pi * (r2 ** 2 - r1 ** 2)
TubeA(r2, r1) == PiArr(ArrSub(ArrPow(r2, 2), ArrPow(r1, 2)))
\* np.pi * (r2 ** 4 - r1 ** 4) / 4.
TubeIy(r2, r1) == PiArrDiv(PiArr(ArrSub(ArrPow(r2, 4), ArrPow(r1, 4))), 4)
\* np.pi * (r2 ** 4 - r1 ** 4) / 4.
TubeIz(r2, r1) == PiArrDiv(PiArr(ArrSub(ArrPow(r2, 4), ArrPow(r1, 4))), 4)

\* variant: J divided by 4 like Iy and Iz
TubeJ_Quarter(r2, r1) == PiArrDiv(PiArr(ArrSub(ArrPow(r2, 4), ArrPow(r1, 4))), 4)

\* np.pi * (r2 ** 4 - r1 ** 4) / 2.
TubeJ(r2, r1) == PiArrDiv(PiArr(ArrSub(ArrPow(r2, 4), ArrPow(r1, 4))), 2)

\* variant: the thickness of the first element used for every element
InnerRadius_FirstThickness(radius, thickness) ==
    [i \in 1..BLen(radius, thickness) |-> DSub(At(radius, i), thickness[1])]

\* r1 = inputs[radius_name] - inputs[thickness_name]
InnerRadius(radius, thickness) == ArrSub(radius, thickness)

\* the four assignments of one pass of the loop of compute
ComputeSurface(name, ins, outs) ==
    LET r1 == InnerRadius(ins[InKey(name, "radius")], ins[InKey(name, "thickness")])
        r2 == ins[InKey(name, "radius")]
        o1 == Put(outs, OutKey(name, "A"), TubeA(r2, r1))
        o2 == Put(o1, OutKey(name, "Iy"), TubeIy(r2, r1))
        o3 == Put(o2, OutKey(name, "Iz"), TubeIz(r2, r1))
    IN  Put(o3, OutKey(name, "J"), TubeJ(r2, r1))

\* the loop of compute from surface k on; the subtraction of two arrays that
\* do not broadcast raises ValueError and leaves what was written before
RECURSIVE ComputeFrom(_, _, _)
ComputeFrom(k, ins, outs) ==
    IF k > Len(lifting_surfaces)
    THEN [outputs |-> outs, err |-> "none"]
    ELSE LET name == lifting_surfaces[k][1]
         IN  IF ~Broadcastable(ins[InKey(name, "radius")], ins[InKey(name, "thickness")])
             THEN [outputs |-> outs, err |-> "ValueError"]
             ELSE ComputeFrom(k + 1, ins, ComputeSurface(name, ins, outs))

----------------------------------------------------------------------------
(* compute_partials                                                        *)

dr1_dr == 1
dr2_dr == 1
dr1_dt == -1
dr2_dt == 0

\* r2 ** p * d2 - r1 ** p * d1
Chain(r2, r1, p, d2, d1) ==
    ArrSub(ArrScale(ArrPow(r2, p), d2), ArrScale(ArrPow(r1, p), d1))

\* 2 * np.pi * (r2 * dr2_dr - r1 * dr1_dr)
dA_dradius(r2, r1) == PiArrScale(2, PiArr(Chain(r2, r1, 1, dr2_dr, dr1_dr)))

\* variant: dr1_dt taken as +1
dA_dthickness_WrongSign(r2, r1) == PiArrScale(2, PiArr(Chain(r2, r1, 1, dr2_dt, 1)))

\* 2 * np.pi * (r2 * dr2_dt - r1 * dr1_dt)
dA_dthickness(r2, r1) == PiArrScale(2, PiArr(Chain(r2, r1, 1, dr2_dt, dr1_dt)))
\* np.pi * (r2 ** 3 * dr2_dr - r1 ** 3 * dr1_dr)
dIy_dradius(r2, r1) == PiArr(Chain(r2, r1, 3, dr2_dr, dr1_dr))
\* np.pi * (r2 ** 3 * dr2_dt - r1 ** 3 * dr1_dt)
dIy_dthickness(r2, r1) == PiArr(Chain(r2, r1, 3, dr2_dt, dr1_dt))
\* np.pi * (r2 ** 3 * dr2_dr - r1 ** 3 * dr1_dr)
dIz_dradius(r2, r1) == PiArr(Chain(r2, r1, 3, dr2_dr, dr1_dr))
\* np.pi * (r2 ** 3 * dr2_dt - r1 ** 3 * dr1_dt)
dIz_dthickness(r2, r1) == PiArr(Chain(r2, r1, 3, dr2_dt, dr1_dt))
\* 2 * np.pi * (r2 ** 3 * dr2_dr - r1 ** 3 * dr1_dr)
dJ_dradius(r2, r1) == PiArrScale(2, PiArr(Chain(r2, r1, 3, dr2_dr, dr1_dr)))

\* variant: the factor 2 left out
dJ_dthickness_Unscaled(r2, r1) == PiArr(Chain(r2, r1, 3, dr2_dt, dr1_dt))

\* 2 * np.pi * (r2 ** 3 * dr2_dt - r1 ** 3 * dr1_dt)
dJ_dthickness(r2, r1) == PiArrScale(2, PiArr(Chain(r2, r1, 3, dr2_dt, dr1_dt)))

\* the eight assignments of one pass of the loop of compute_partials
PartialsSurface(name, ins, parts) ==
    LET radius_name == InKey(name, "radius")
        thickness_name == InKey(name, "thickness")
        r1 == InnerRadius(ins[radius_name], ins[thickness_name])
        r2 == ins[radius_name]
        p1 == Put(parts, <<OutKey(name, "A"), radius_name>>, dA_dradius(r2, r1))
        p2 == Put(p1, <<OutKey(name, "A"), thickness_name>>, dA_dthickness(r2, r1))
        p3 == Put(p2, <<OutKey(name, "Iy"), radius_name>>, dIy_dradius(r2, r1))
        p4 == Put(p3, <<OutKey(name, "Iy"), thickness_name>>, dIy_dthickness(r2, r1))
        p5 == Put(p4, <<OutKey(name, "Iz"), radius_name>>, dIz_dradius(r2, r1))
        p6 == Put(p5, <<OutKey(name, "Iz"), thickness_name>>, dIz_dthickness(r2, r1))
        p7 == Put(p6, <<OutKey(name, "J"), radius_name>>, dJ_dradius(r2, r1))
    IN  Put(p7, <<OutKey(name, "J"), thickness_name>>, dJ_dthickness(r2, r1))

RECURSIVE PartialsFrom(_, _, _)
PartialsFrom(k, ins, parts) ==
    IF k > Len(lifting_surfaces)
    THEN [partials |-> parts, err |-> "none"]
    ELSE LET name == lifting_surfaces[k][1]
         IN  IF ~Broadcastable(ins[InKey(name, "radius")], ins[InKey(name, "thickness")])
             THEN [partials |-> parts, err |-> "ValueError"]
             ELSE PartialsFrom(k + 1, ins, PartialsSurface(name, ins, parts))

----------------------------------------------------------------------------
(* The component as a state machine: construction, setup, then any         *)
(* sequence of input changes, compute and compute_partials.                *)

Init ==
    /\ lifting_surfaces \in SurfaceLists
    /\ pc = "new"
    /\ declared_inputs = Empty
    /\ declared_outputs = Empty
    /\ declared_partials = Empty
    /\ inputs = Empty
    /\ outputs = Empty
    /\ partials = Empty
    /\ err = "none"
    /\ computed_for = NoCall
    /\ partials_for = NoCall
    /\ changes = 0

\* setup(); on success the framework allocates every declared variable with
\* its default value 1.0 and every declared sub-Jacobian with zeros
Setup ==
    /\ pc = "new"
    /\ LET res == SetupFrom(1, declared_inputs, declared_outputs, declared_partials)
       IN  /\ declared_inputs' = res.din
           /\ declared_outputs' = res.dout
           /\ declared_partials' = res.dpart
           /\ err' = res.err
           /\ pc' = IF res.err = "none" THEN "ready" ELSE "failed"
           /\ inputs' = IF res.err = "none"
                        THEN [k \in DOMAIN res.din |-> Ones(res.din[k])]
                        ELSE inputs
           /\ outputs' = IF res.err = "none"
                         THEN [k \in DOMAIN res.dout |-> [i \in 1..res.dout[k] |-> Dec(10, 1)]]
                         ELSE outputs
           /\ partials' = IF res.err = "none"
                          THEN [k \in DOMAIN res.dpart |->
                                  [i \in 1..Len(res.dpart[k].rows) |-> Dec(0, 1)]]
                          ELSE partials
    /\ UNCHANGED <<lifting_surfaces, computed_for, partials_for, changes>>

\* the caller overwrites one entry of an input array
SetElement ==
    /\ pc = "ready"
    /\ changes < MaxChanges
    /\ \E key \in DOMAIN inputs : \E i \in DOMAIN inputs[key] : \E v \in Values :
          /\ inputs[key][i] # v
          /\ inputs' = [inputs EXCEPT ![key][i] = v]
    /\ changes' = changes + 1
    /\ UNCHANGED <<lifting_surfaces, pc, declared_inputs, declared_outputs,
                   declared_partials, outputs, partials, err, computed_for,
                   partials_for>>

\* the caller hands over an input array one entry longer or shorter
Resize ==
    /\ pc = "ready"
    /\ changes < MaxChanges
    /\ \E key \in DOMAIN inputs :
          \/ \E v \in Values : inputs' = [inputs EXCEPT ![key] = Append(@, v)]
          \/ /\ Len(inputs[key]) > 0
             /\ inputs' = [inputs EXCEPT ![key] = SubSeq(@, 1, Len(@) - 1)]
    /\ changes' = changes + 1
    /\ UNCHANGED <<lifting_surfaces, pc, declared_inputs, declared_outputs,
                   declared_partials, outputs, partials, err, computed_for,
                   partials_for>>

\* compute(inputs, outputs)
Compute ==
    /\ pc = "ready"
    /\ LET res == ComputeFrom(1, inputs, outputs)
       IN  /\ outputs' = res.outputs
           /\ err' = res.err
           /\ computed_for' = IF res.err = "none" THEN CallOn(inputs) ELSE NoCall
    /\ UNCHANGED <<lifting_surfaces, pc, declared_inputs, declared_outputs,
                   declared_partials, inputs, partials, partials_for, changes>>

\* compute_partials(inputs, partials)
ComputePartials ==
    /\ pc = "ready"
    /\ LET res == PartialsFrom(1, inputs, partials)
       IN  /\ partials' = res.partials
           /\ err' = res.err
           /\ partials_for' = IF res.err = "none" THEN CallOn(inputs) ELSE NoCall
    /\ UNCHANGED <<lifting_surfaces, pc, declared_inputs, declared_outputs,
                   declared_partials, inputs, outputs, computed_for, changes>>

Next == Setup \/ SetElement \/ Resize \/ Compute \/ ComputePartials

Spec == Init /\ [][Next]_vars

----------------------------------------------------------------------------
(* Vocabulary of the properties.                                           *)

Surfaces == DOMAIN lifting_surfaces
NameOf(k) == lifting_surfaces[k][1]

\* the slot names as the interface states them
RadiusOf(k) == NameOf(k) \o "_tube_radius"
ThicknessOf(k) == NameOf(k) \o "_tube_thickness"
AOf(k) == NameOf(k) \o "_element_A"
IyOf(k) == NameOf(k) \o "_element_Iy"
IzOf(k) == NameOf(k) \o "_element_Iz"
JOf(k) == NameOf(k) \o "_element_J"

\* the outputs (partials) are those of a call on the current inputs
OutputsFresh == pc = "ready" /\ computed_for = CallOn(inputs)
PartialsFresh == pc = "ready" /\ partials_for = CallOn(inputs)

\* the number of elements fixed at setup for surface k
NElements(k) == declared_inputs[RadiusOf(k)]

\* both input arrays of surface k of the map ins have the declared length
Conforming(k, ins) ==
    /\ Len(ins[RadiusOf(k)]) = NElements(k)
    /\ Len(ins[ThicknessOf(k)]) = NElements(k)

\* x is the real number q * pi
IsPiTimes(x, q) == "pi" \in DOMAIN x /\ DEq(x.pi, q)

Sq(x) == DMul(x, x)
Cube(x) == DMul(x, DMul(x, x))
Fourth(x) == DMul(Sq(x), Sq(x))

----------------------------------------------------------------------------
\* C1: after compute, for every surface and every element i, with
\* r1 = radius[i] - thickness[i] and r2 = radius[i]: A[i] = pi (r2^2 - r1^2),
\* 4 Iy[i] = 4 Iz[i] = pi (r2^4 - r1^4) and 2 J[i] = pi (r2^4 - r1^4); in
\* particular radius 1.0 and thickness 0.1 give A = 0.19 pi,
\* Iy = Iz = 0.3439 pi / 4 and J = 0.3439 pi / 2.
ComputeMatchesFormulas ==
    OutputsFresh =>
        \A k \in Surfaces : Conforming(k, inputs) =>
            /\ \A key \in {AOf(k), IyOf(k), IzOf(k), JOf(k)} :
                  Len(outputs[key]) = NElements(k)
            /\ \A i \in 1..NElements(k) :
                  LET r2 == inputs[RadiusOf(k)][i]
                      r1 == DSub(inputs[RadiusOf(k)][i], inputs[ThicknessOf(k)][i])
                      d2 == DSub(Sq(r2), Sq(r1))
                      d4 == DSub(Fourth(r2), Fourth(r1))
                      A == outputs[AOf(k)][i]
                      Iy == outputs[IyOf(k)][i]
                      Iz == outputs[IzOf(k)][i]
                      J == outputs[JOf(k)][i]
                  IN  /\ IsPiTimes(A, d2)
                      /\ "pi" \in DOMAIN Iy /\ DEq(DMul(Int2D(4), Iy.pi), d4)
                      /\ "pi" \in DOMAIN Iz /\ DEq(DMul(Int2D(4), Iz.pi), d4)
                      /\ "pi" \in DOMAIN J /\ DEq(DMul(Int2D(2), J.pi), d4)
                      /\ (DEq(r2, Dec(10, 1)) /\ DEq(inputs[ThicknessOf(k)][i], Dec(1, 1))) =>
                            /\ IsPiTimes(A, Dec(19, 2))
                            /\ DEq(DMul(Int2D(4), Iy.pi), Dec(3439, 4))
                            /\ DEq(DMul(Int2D(4), Iz.pi), Dec(3439, 4))
                            /\ DEq(DMul(Int2D(2), J.pi), Dec(3439, 4))

\* a compute on an element of radius 1.0 and thickness 0.1 next to an
\* element of another geometry
ComputeMatchesFormulasWitness ==
    /\ OutputsFresh
    /\ \E k \in Surfaces :
          /\ Conforming(k, inputs)
          /\ \E i, j \in 1..NElements(k) :
                /\ inputs[RadiusOf(k)][i] = Dec(10, 1)
                /\ inputs[ThicknessOf(k)][i] = Dec(1, 1)
                /\ inputs[RadiusOf(k)][j] = Dec(20, 1)
                /\ outputs[AOf(k)][i] = PiTimes(Dec(19, 2))
                /\ outputs[JOf(k)][i] = PiTimes(Dec(171950, 6))

----------------------------------------------------------------------------
\* C2: after compute_partials, for every surface and every element i, with
\* r1 = radius[i] - thickness[i] and r2 = radius[i], the eight diagonal
\* entries are dA/dradius = 2 pi (r2 - r1), dA/dthickness = 2 pi r1,
\* dIy/dradius = dIz/dradius = pi (r2^3 - r1^3),
\* dIy/dthickness = dIz/dthickness = pi r1^3,
\* dJ/dradius = 2 pi (r2^3 - r1^3), dJ/dthickness = 2 pi r1^3.
PartialsMatchFormulas ==
    PartialsFresh =>
        \A k \in Surfaces : Conforming(k, inputs) =>
            /\ \A of \in {AOf(k), IyOf(k), IzOf(k), JOf(k)} :
                  \A wrt \in {RadiusOf(k), ThicknessOf(k)} :
                      Len(partials[<<of, wrt>>]) = NElements(k)
            /\ \A i \in 1..NElements(k) :
                  LET r2 == inputs[RadiusOf(k)][i]
                      r1 == DSub(inputs[RadiusOf(k)][i], inputs[ThicknessOf(k)][i])
                      d1 == DSub(r2, r1)
                      d3 == DSub(Cube(r2), Cube(r1))
                      P(of, wrt) == partials[<<of, wrt>>][i]
                  IN  /\ IsPiTimes(P(AOf(k), RadiusOf(k)), DMul(Int2D(2), d1))
                      /\ IsPiTimes(P(AOf(k), ThicknessOf(k)), DMul(Int2D(2), r1))
                      /\ IsPiTimes(P(IyOf(k), RadiusOf(k)), d3)
                      /\ IsPiTimes(P(IzOf(k), RadiusOf(k)), d3)
                      /\ IsPiTimes(P(IyOf(k), ThicknessOf(k)), Cube(r1))
                      /\ IsPiTimes(P(IzOf(k), ThicknessOf(k)), Cube(r1))
                      /\ IsPiTimes(P(JOf(k), RadiusOf(k)), DMul(Int2D(2), d3))
                      /\ IsPiTimes(P(JOf(k), ThicknessOf(k)), DMul(Int2D(2), Cube(r1)))

\* a compute_partials on an element of radius 1.0 and thickness 0.1, where
\* dA/dradius = 0.2 pi and dA/dthickness = 1.8 pi, next to an element whose
\* wall is thicker than its radius (r1 < 0)
PartialsMatchFormulasWitness ==
    /\ PartialsFresh
    /\ \E k \in Surfaces :
          /\ Conforming(k, inputs)
          /\ \E i, j \in 1..NElements(k) :
                /\ inputs[RadiusOf(k)][i] = Dec(10, 1)
                /\ inputs[ThicknessOf(k)][i] = Dec(1, 1)
                /\ DLess(inputs[RadiusOf(k)][j], inputs[ThicknessOf(k)][j])
                /\ IsPiTimes(partials[<<AOf(k), RadiusOf(k)>>][i], Dec(2, 1))
                /\ IsPiTimes(partials[<<AOf(k), ThicknessOf(k)>>][i], Dec(18, 1))

----------------------------------------------------------------------------
\* C5: after compute, every element with radius[i] > thickness[i] > 0 has
\* A[i] > 0, Iy[i] > 0, Iz[i] > 0, J[i] > 0, and Iy[i] = Iz[i].
PiPositive(x) == "pi" \in DOMAIN x /\ x.pi.m > 0

OutputsPositive ==
    OutputsFresh =>
        \A k \in Surfaces : Conforming(k, inputs) =>
            \A i \in 1..NElements(k) :
                (/\ DLess(inputs[ThicknessOf(k)][i], inputs[RadiusOf(k)][i])
                 /\ DLess(Int2D(0), inputs[ThicknessOf(k)][i])) =>
                    /\ PiPositive(outputs[AOf(k)][i])
                    /\ PiPositive(outputs[IyOf(k)][i])
                    /\ PiPositive(outputs[IzOf(k)][i])
                    /\ PiPositive(outputs[JOf(k)][i])
                    /\ outputs[IyOf(k)][i] = outputs[IzOf(k)][i]

\* a compute on a thin-walled element (thickness 0.1 of radius 2.0)
OutputsPositiveWitness ==
    /\ OutputsFresh
    /\ \E k \in Surfaces :
          /\ Conforming(k, inputs)
          /\ \E i \in 1..NElements(k) :
                /\ inputs[RadiusOf(k)][i] = Dec(20, 1)
                /\ inputs[ThicknessOf(k)][i] = Dec(1, 1)
                /\ PiPositive(outputs[AOf(k)][i])
                /\ outputs[IyOf(k)][i] = outputs[IzOf(k)][i]

----------------------------------------------------------------------------
\* C3: for every valid element (radius > 0, 0 < thickness <= radius) and
\* every one of the 8 (output, input) pairs, the entry compute_partials
\* writes is the derivative of the value compute writes.  With
\* D(h) = f(x + h) - f(x - h) the difference of two compute results and p the
\* entry written, the central difference D(h) / (2h) differs from p by
\* exactly K h^2 for one K that does not depend on the step h (checked on
\* two steps), so the difference vanishes as h -> 0; K = 0 for the quadratic
\* output A; and at the step 1e-4 the difference K h^2 is within the relative
\* tolerance 1e-5 of p.
StepA == Dec(1, 1)
StepB == Dec(2, 1)
FdStep == Dec(1, 4)
RelTol == Dec(1, 5)

\* the value compute writes to out[i] of surface k when input wrt[i] is moved by delta
Perturbed(k, out, wrt, i, delta) ==
    ComputeSurface(NameOf(k), [inputs EXCEPT ![wrt][i] = DAdd(@, delta)], outputs)[out][i].pi

\* f(x + h) - f(x - h) - 2 h p, in units of pi
Residual(k, out, wrt, i, h) ==
    DSub(DSub(Perturbed(k, out, wrt, i, h), Perturbed(k, out, wrt, i, DSub(Int2D(0), h))),
         DMul(DMul(Int2D(2), h), partials[<<out, wrt>>][i].pi))

ValidElement(k, i) ==
    /\ DLess(Int2D(0), inputs[RadiusOf(k)][i])
    /\ DLess(Int2D(0), inputs[ThicknessOf(k)][i])
    /\ DLeq(inputs[ThicknessOf(k)][i], inputs[RadiusOf(k)][i])

PartialsAreDerivatives ==
    PartialsFresh =>
        \A k \in Surfaces : Conforming(k, inputs) =>
            \A i \in 1..NElements(k) : ValidElement(k, i) =>
                \A out \in {AOf(k), IyOf(k), IzOf(k), JOf(k)} :
                    \A wrt \in {RadiusOf(k), ThicknessOf(k)} :
                        LET ea == Residual(k, out, wrt, i, StepA)
                            eb == Residual(k, out, wrt, i, StepB)
                            p == partials[<<out, wrt>>][i].pi
                        IN  \* ea / (2 StepA^3) = eb / (2 StepB^3) = K
                            /\ DEq(DMul(ea, Cube(StepB)), DMul(eb, Cube(StepA)))
                            /\ out = AOf(k) => (ea.m = 0 /\ eb.m = 0)
                            \* |K| FdStep^2 <= RelTol |p|
                            /\ DLeq(DMul(DAbs(ea), Sq(FdStep)),
                                    DMul(DMul(RelTol, DAbs(p)), DMul(Int2D(2), Cube(StepA))))

\* compute_partials on a valid element whose quartic outputs have a nonzero
\* second-order difference term, and on a solid element (thickness = radius)
PartialsAreDerivativesWitness ==
    /\ PartialsFresh
    /\ \E k \in Surfaces :
          /\ Conforming(k, inputs)
          /\ \E i, j \in 1..NElements(k) :
                /\ ValidElement(k, i)
                /\ DLess(inputs[ThicknessOf(k)][i], inputs[RadiusOf(k)][i])
                /\ Residual(k, IyOf(k), RadiusOf(k), i, StepA).m # 0
                /\ Residual(k, JOf(k), ThicknessOf(k), i, StepA).m # 0
                /\ ValidElement(k, j)
                /\ inputs[ThicknessOf(k)][j] = inputs[RadiusOf(k)][j]
                /\ partials[<<IyOf(k), ThicknessOf(k)>>][j].pi.m = 0

----------------------------------------------------------------------------
(* C4: what setup declares.                                                *)

DataOf(k) == lifting_surfaces[k][2]

\* the two inputs, the four outputs and the eight diagonal patterns of
\* surface k, all of length n
DeclaredWithLength(k, n) ==
    /\ \A key \in {RadiusOf(k), ThicknessOf(k)} :
          key \in DOMAIN declared_inputs /\ declared_inputs[key] = n
    /\ \A key \in {AOf(k), IyOf(k), IzOf(k), JOf(k)} :
          key \in DOMAIN declared_outputs /\ declared_outputs[key] = n
    /\ \A of \in {AOf(k), IyOf(k), IzOf(k), JOf(k)} :
          \A wrt \in {RadiusOf(k), ThicknessOf(k)} :
              /\ <<of, wrt>> \in DOMAIN declared_partials
              /\ declared_partials[<<of, wrt>>].rows = [j \in 1..n |-> j - 1]
              /\ declared_partials[<<of, wrt>>].cols = [j \in 1..n |-> j - 1]

\* C4 as stated: once setup has run, every surface of the list whose metadata
\* gives the node count h under the key num_points_half has its two inputs,
\* four outputs and eight diagonal patterns declared with length 2 h - 2.
SetupDeclaresUnderSpecKey ==
    pc # "new" =>
        \A k \in Surfaces : "num_points_half" \in DOMAIN DataOf(k) =>
            DeclaredWithLength(k, 2 * DataOf(k)["num_points_half"] - 2)

\* C4 amended: when every surface of the list gives its node count h under
\* the key num_points_z_half, setup returns normally having declared, for
\* every surface, exactly two inputs and four outputs of length 2 h - 2 and
\* exactly the eight diagonal patterns rows = cols = 0..n-1, and nothing else.
SetupDeclares ==
    (pc # "new" /\ \A k \in Surfaces : "num_points_z_half" \in DOMAIN DataOf(k)) =>
        /\ pc = "ready"
        /\ \A k \in Surfaces :
              DeclaredWithLength(k, 2 * DataOf(k)["num_points_z_half"] - 2)
        /\ DOMAIN declared_inputs =
              UNION {{RadiusOf(k), ThicknessOf(k)} : k \in Surfaces}
        /\ DOMAIN declared_outputs =
              UNION {{AOf(k), IyOf(k), IzOf(k), JOf(k)} : k \in Surfaces}
        /\ DOMAIN declared_partials =
              UNION {{AOf(k), IyOf(k), IzOf(k), JOf(k)} \X {RadiusOf(k), ThicknessOf(k)} :
                       k \in Surfaces}
        /\ Cardinality(DOMAIN declared_inputs) = 2 * Len(lifting_surfaces)
        /\ Cardinality(DOMAIN declared_outputs) = 4 * Len(lifting_surfaces)
        /\ Cardinality(DOMAIN declared_partials) = 8 * Len(lifting_surfaces)

\* setup has returned for two surfaces of different sizes (2 and 0 elements)
SetupDeclaresWitness ==
    /\ pc = "ready"
    /\ Len(lifting_surfaces) = 2
    /\ DeclaredWithLength(1, 2)
    /\ DeclaredWithLength(2, 0)
    /\ declared_partials[<<AOf(1), RadiusOf(1)>>].rows = <<0, 1>>

----------------------------------------------------------------------------
\* C6: elementwise independence.  Between one compute and the next, whatever
\* the caller changed at other indices, every element j whose radius[j] and
\* thickness[j] are the same in both input states gets the same A[j], Iy[j],
\* Iz[j], J[j]; and the same holds of the eight diagonal entries at j between
\* one compute_partials and the next.
SameElement(k, j, ins1, ins2) ==
    /\ ins1[RadiusOf(k)][j] = ins2[RadiusOf(k)][j]
    /\ ins1[ThicknessOf(k)][j] = ins2[ThicknessOf(k)][j]

ElementwiseIndependence ==
    [][/\ (Compute /\ computed_for.valid /\ err' = "none") =>
            \A k \in Surfaces :
                (Conforming(k, computed_for.ins) /\ Conforming(k, inputs)) =>
                    \A j \in 1..NElements(k) : SameElement(k, j, computed_for.ins, inputs) =>
                        \A out \in {AOf(k), IyOf(k), IzOf(k), JOf(k)} :
                            outputs'[out][j] = outputs[out][j]
       /\ (ComputePartials /\ partials_for.valid /\ err' = "none") =>
            \A k \in Surfaces :
                (Conforming(k, partials_for.ins) /\ Conforming(k, inputs)) =>
                    \A j \in 1..NElements(k) : SameElement(k, j, partials_for.ins, inputs) =>
                        \A out \in {AOf(k), IyOf(k), IzOf(k), JOf(k)} :
                            \A wrt \in {RadiusOf(k), ThicknessOf(k)} :
                                partials'[<<out, wrt>>][j] = partials[<<out, wrt>>][j]
      ]_vars

\* compute and compute_partials have run, and the caller has since changed
\* the thickness of one element i of a surface and nothing at element j # i
ElementwiseIndependenceWitness ==
    /\ pc = "ready"
    /\ computed_for.valid
    /\ partials_for = computed_for
    /\ \E k \in Surfaces :
          /\ Conforming(k, computed_for.ins) /\ Conforming(k, inputs)
          /\ \E i, j \in 1..NElements(k) :
                /\ i # j
                /\ computed_for.ins[ThicknessOf(k)][i] # inputs[ThicknessOf(k)][i]
                /\ SameElement(k, j, computed_for.ins, inputs)

----------------------------------------------------------------------------
\* C7: multi-surface isolation.  The keys built for two different surfaces
\* never coincide (and the six keys of one surface are distinct); after a
\* compute (compute_partials) the outputs (partials) of a surface are what
\* one pass of the loop yields from that surface's two inputs alone, written
\* under that surface's keys alone; and two surfaces with identical inputs
\* have identical outputs and partials.
Restrict(f, S) == [x \in S |-> f[x]]
KeysOf(name) == SurfaceInKeys(name) \cup SurfaceOutKeys(name)

SurfacesIsolated ==
    /\ \A k \in Surfaces : Cardinality(KeysOf(NameOf(k))) = 6
    /\ \A k1, k2 \in Surfaces : k1 # k2 =>
          /\ KeysOf(NameOf(k1)) \cap KeysOf(NameOf(k2)) = {}
          /\ SurfacePairs(NameOf(k1)) \cap SurfacePairs(NameOf(k2)) = {}
    /\ OutputsFresh =>
          \A k \in Surfaces :
              LET own == Restrict(inputs, {RadiusOf(k), ThicknessOf(k)})
                  res == ComputeSurface(NameOf(k), own, Empty)
              IN  /\ DOMAIN res = {AOf(k), IyOf(k), IzOf(k), JOf(k)}
                  /\ \A out \in DOMAIN res : outputs[out] = res[out]
    /\ PartialsFresh =>
          \A k \in Surfaces :
              LET own == Restrict(inputs, {RadiusOf(k), ThicknessOf(k)})
                  res == PartialsSurface(NameOf(k), own, Empty)
              IN  /\ DOMAIN res = {AOf(k), IyOf(k), IzOf(k), JOf(k)}
                                    \X {RadiusOf(k), ThicknessOf(k)}
                  /\ \A pair \in DOMAIN res : partials[pair] = res[pair]
    /\ \A k1, k2 \in Surfaces :
          (/\ pc = "ready"
           /\ inputs[RadiusOf(k1)] = inputs[RadiusOf(k2)]
           /\ inputs[ThicknessOf(k1)] = inputs[ThicknessOf(k2)]) =>
              /\ OutputsFresh =>
                    /\ outputs[AOf(k1)] = outputs[AOf(k2)]
                    /\ outputs[IyOf(k1)] = outputs[IyOf(k2)]
                    /\ outputs[IzOf(k1)] = outputs[IzOf(k2)]
                    /\ outputs[JOf(k1)] = outputs[JOf(k2)]
              /\ PartialsFresh =>
                    \A o \in Range(OutNames) : \A w \in Range(InNames) :
                        partials[<<OutKey(NameOf(k1), o), InKey(NameOf(k1), w)>>]
                          = partials[<<OutKey(NameOf(k2), o), InKey(NameOf(k2), w)>>]

\* two surfaces of two elements each, given the same inputs (not the
\* defaults), after compute and compute_partials
SurfacesIsolatedWitness ==
    /\ OutputsFresh /\ PartialsFresh
    /\ Len(lifting_surfaces) = 2
    /\ NElements(1) = 2 /\ NElements(2) = 2
    /\ inputs[RadiusOf(1)] = inputs[RadiusOf(2)]
    /\ inputs[ThicknessOf(1)] = inputs[ThicknessOf(2)]
    /\ inputs[ThicknessOf(1)][1] = Dec(1, 1)
    /\ outputs[AOf(1)] = outputs[AOf(2)]
    /\ outputs[AOf(1)][1] = PiTimes(Dec(19, 2))

----------------------------------------------------------------------------
\* C9 as stated: a compute or compute_partials call on inputs of which some
\* radius or thickness array has not the length fixed at setup reports an
\* error and writes no output and no partial.
Mismatched == \E k \in Surfaces : ~Conforming(k, inputs)

ShapeMismatchDetected ==
    [][((Compute \/ ComputePartials) /\ Mismatched) =>
          (err' # "none" /\ outputs' = outputs /\ partials' = partials)]_vars

----------------------------------------------------------------------------
\* C10: statelessness.  What a compute (compute_partials) call that returns
\* normally leaves in outputs (partials) is determined by the inputs current
\* at the call: it is what the same call leaves when started from empty
\* vectors, whatever earlier calls left there; and the call changes nothing
\* but outputs (partials): not the inputs, not the declared shapes and
\* patterns, not the other vector.
CallsAreStateless ==
    [][/\ Compute =>
            /\ err' = "none" =>
                  /\ outputs' = ComputeFrom(1, inputs, Empty).outputs
                  /\ DOMAIN outputs' = DOMAIN declared_outputs
            /\ UNCHANGED <<lifting_surfaces, inputs, declared_inputs, declared_outputs,
                           declared_partials, partials>>
       /\ ComputePartials =>
            /\ err' = "none" =>
                  /\ partials' = PartialsFrom(1, inputs, Empty).partials
                  /\ DOMAIN partials' = DOMAIN declared_partials
            /\ UNCHANGED <<lifting_surfaces, inputs, declared_inputs, declared_outputs,
                           declared_partials, outputs>>
      ]_vars

\* compute_partials ran on earlier inputs, the caller changed the inputs
\* twice, and compute then ran on the current ones
CallsAreStatelessWitness ==
    /\ OutputsFresh
    /\ partials_for.valid
    /\ partials_for.ins # inputs
    /\ changes = 2
    /\ \E k \in Surfaces : NElements(k) = 2 /\ Conforming(k, inputs)
                           /\ outputs[AOf(k)][1] # outputs[AOf(k)][2]

====
